---- MODULE Spec2Model ----
(***************************************************************************)
(* Model of backend/app/main.py of flashback-back: the upload endpoint     *)
(* (upload_file) and the streaming job endpoint (websocket_processing).    *)
(*                                                                         *)
(* Both handlers are coroutines: a request runs atomically between two     *)
(* awaits, and other requests may run at every await.  Each action below   *)
(* is the code between two consecutive awaits of one handler.              *)
(*                                                                         *)
(* The collaborators (file_processor, ai_processor, video_processor,       *)
(* db_service, the websocket) are outside main.py.  A call to one of them  *)
(* either returns or raises; both outcomes are modelled.  Every call made  *)
(* by a handler is appended to the handler's log (ops / trace), which is   *)
(* the record the collaborators have of what the handler did.              *)
(***************************************************************************)
EXTENDS Integers, Sequences, FiniteSets, TLC

(***************************************************************************)
(* Bounds of the model.                                                    *)
(***************************************************************************)
MaxChapters == 3    \* longest chapter list returned by segmentation
MaxIndex == 2       \* start_chapter and end_chapter range over MinIndex..MaxIndex
MinIndex == -2      \* negative indices count from the end of the list (line 132)

(***************************************************************************)
(* Requests, connections and their inputs.                                 *)
(***************************************************************************)
Reqs == {"u1", "u2"}
Conns == {"c1", "c2"}
TaskIds == {"t1", "t2"}

MaxFileSize == 100 * 1024 * 1024

Filenames == {"", "doc.txt", "notes.txt"}
Sizes == {1, MaxFileSize, MaxFileSize + 1}
ContentTypes == {"KeyMoment", "Quiz"}
Indices == MinIndex .. MaxIndex

Min(a, b) == IF a < b THEN a ELSE b
Max(a, b) == IF a > b THEN a ELSE b

\* Chapter-title lists that segmentation can return: the prefixes of two
\* differently ordered documents.
Documents ==
    { <<"Intro", "Body", "Conclusion", "Annex", "Index">>,
      <<"Body", "Intro", "Annex", "Conclusion", "Index">> }
SegmentationResults ==
    { SubSeq(d, 1, n) : d \in Documents, n \in 0 .. Min(MaxChapters, 5) }

NoTask == [filename |-> "", chapters |-> <<>>, present |-> FALSE]

VARIABLES
    req,     \* req[r]: locals, response and call log of upload request r
    disk,    \* disk[p]: what is at path p: "absent", "empty" or the request whose bytes it holds
    tasks,   \* the Task Store: tasks[id] is the record stored under id, or NoTask
    conn     \* conn[c]: parameters, locals and call log of streaming connection c

vars == <<req, disk, tasks, conn>>

(***************************************************************************)
(* upload_file                                                             *)
(***************************************************************************)
\* line 57: temp_path = f"./videos/tmp/{file.filename}"
TempPath(filename) == "./videos/tmp/" \o filename

TempPaths == { TempPath(f) : f \in Filenames \ {""} }

\* line 45: if not file.filename
NoFilename(filename) == filename = ""

\* the size check with the limit itself rejected
FileTooLarge_Inclusive(file_size) == file_size >= MaxFileSize

\* line 53: if file_size > 100 * 1024 * 1024
FileTooLarge(file_size) == file_size > MaxFileSize

\* the chapters stored in reverse order
ChapterDicts_Reversed(chapters_of_subject) ==
    [i \in 1 .. Len(chapters_of_subject) |->
        [title |-> chapters_of_subject[Len(chapters_of_subject) + 1 - i]]]

\* lines 81-84: [{"title": chapter} for chapter in chapters_of_subject]
ChapterDicts(chapters_of_subject) ==
    [i \in 1 .. Len(chapters_of_subject) |-> [title |-> chapters_of_subject[i]]]

\* line 90: [chapter for chapter in chapters_of_subject]
ResponseChapters(chapters_of_subject) ==
    [i \in 1 .. Len(chapters_of_subject) |-> chapters_of_subject[i]]

\* line 106: os.path.exists(temp_path)
Exists(d, path) == d[path] # "absent"

NoBody == [task_id |-> "", chapters |-> <<>>]

InitReq ==
    [pc |-> "idle", filename |-> "", file_size |-> 0,
     has_temp_path |-> FALSE, temp_path |-> "",
     content |-> "none", chapters_of_subject |-> <<>>, task_id |-> "",
     cause |-> "", status |-> 0, detail |-> "", body |-> NoBody, ops |-> <<>>]

\* raise HTTPException(status_code, detail): control goes to the finally block
RaiseHTTP(rec, status_code, detail) ==
    [rec EXCEPT !.pc = "finally", !.status = status_code, !.detail = detail]

\* a call to a collaborator raised the exception named cause
Raised(rec, op, cause) == [rec EXCEPT !.ops = Append(@, op), !.cause = cause]

\* lines 43-59: validation, temp_path, open(temp_path, "wb"); the handler then
\* awaits file.read().
UploadBegin(r) ==
    /\ req[r].pc = "idle"
    /\ \E filename \in Filenames, file_size \in Sizes :
        LET rec == [req[r] EXCEPT !.filename = filename, !.file_size = file_size] IN
        IF NoFilename(filename)
        THEN /\ req' = [req EXCEPT ![r] = RaiseHTTP(rec, 400, "No file name provided")]
             /\ UNCHANGED disk
        ELSE IF FileTooLarge(file_size)
        THEN /\ req' = [req EXCEPT ![r] =
                    RaiseHTTP(rec, 413, "File too large. Maximum size is 100MB")]
             /\ UNCHANGED disk
        ELSE LET path == TempPath(filename)
                 tmp == [rec EXCEPT !.has_temp_path = TRUE, !.temp_path = path]
             IN \/ \* open() creates or truncates the file
                   /\ req' = [req EXCEPT ![r] =
                          [tmp EXCEPT !.pc = "write", !.ops = Append(@, "open")]]
                   /\ disk' = [disk EXCEPT ![path] = "empty"]
                \/ \* open() raises IOError
                   /\ req' = [req EXCEPT ![r] =
                          RaiseHTTP(Raised(tmp, "open", "IOError"),
                                    500, "Error saving file: IOError")]
                   /\ UNCHANGED disk
    /\ UNCHANGED <<tasks, conn>>

\* line 60: buffer.write(...) after file.read() returned; lines 61-62.  A file
\* unlinked since open() stays unlinked: the bytes go to the orphaned inode.
UploadWrite(r) ==
    /\ req[r].pc = "write"
    /\ LET path == req[r].temp_path IN
       \/ /\ req' = [req EXCEPT ![r].pc = "extract", ![r].ops = Append(@, "write")]
          /\ disk' = IF Exists(disk, path) THEN [disk EXCEPT ![path] = r] ELSE disk
       \/ /\ req' = [req EXCEPT ![r] =
                 RaiseHTTP(Raised(req[r], "write", "IOError"),
                           500, "Error saving file: IOError")]
          /\ UNCHANGED disk
    /\ UNCHANGED <<tasks, conn>>

\* lines 69-72: the handler of an extraction or segmentation failure, entered
\* with the locals rec and the exception e.  os.remove raises FileNotFoundError when the file is
\* gone; raised inside the inner handler, it reaches the outer
\* "except Exception" (lines 97-99).
ProcessingFailed(r, rec, e) ==
    LET path == rec.temp_path
        rm == [rec EXCEPT !.ops = Append(@, "remove")]
    IN IF Exists(disk, path)
       THEN /\ disk' = [disk EXCEPT ![path] = "absent"]
            /\ req' = [req EXCEPT ![r] =
                   RaiseHTTP(rm, 422, "Error processing file: " \o e)]
       ELSE /\ UNCHANGED disk
            /\ req' = [req EXCEPT ![r] =
                   RaiseHTTP(rm, 500, "Unexpected error: FileNotFoundError")]

\* file_processor.process_file(temp_path): returns the text of the file at
\* temp_path, or raises; it cannot return when there is no file.
ProcessFileCanReturn(d, path) == Exists(d, path)

\* line 66: content = await file_processor.process_file(temp_path)
UploadExtract(r) ==
    /\ req[r].pc = "extract"
    /\ LET rec == [req[r] EXCEPT !.ops = Append(@, "process_file")]
           exc == Raised(req[r], "process_file", "ExtractError")
       IN
       \/ /\ ProcessFileCanReturn(disk, rec.temp_path)
          /\ req' = [req EXCEPT ![r] =
                 [rec EXCEPT !.pc = "segment", !.content = disk[rec.temp_path]]]
          /\ UNCHANGED disk
       \/ ProcessingFailed(r, exc, exc.cause)
    /\ UNCHANGED <<tasks, conn>>

\* line 67: chapters_of_subject = await ai_processor.generact_list_of_subject(content)
UploadSegment(r) ==
    /\ req[r].pc = "segment"
    /\ LET rec == [req[r] EXCEPT !.ops = Append(@, "generact_list_of_subject")]
           exc == Raised(req[r], "generact_list_of_subject", "SegmentError")
       IN
       \/ /\ \E chapters_of_subject \in SegmentationResults :
                req' = [req EXCEPT ![r] =
                    [rec EXCEPT !.pc = "store",
                                !.chapters_of_subject = chapters_of_subject]]
          /\ UNCHANGED disk
       \/ ProcessingFailed(r, exc, exc.cause)
    /\ UNCHANGED <<tasks, conn>>

\* line 75: uuid.uuid4() returns an identifier that no earlier call returned
UsedTaskIds == { req[r].task_id : r \in Reqs } \ {""}
\* uuid4 gives an id that was given out before
FreshTaskIds_Reused == TaskIds
FreshTaskIds == TaskIds \ UsedTaskIds

\* db_service.store_task(task_id, filename, chapters): the record is stored
\* whole under task_id
StoreTask(store, task_id, filename, chapters) ==
    [store EXCEPT ![task_id] =
        [filename |-> filename, chapters |-> chapters, present |-> TRUE]]

\* lines 74-91 (and 97-99 when store_task raises): task id, store_task, response
UploadStore(r) ==
    /\ req[r].pc = "store"
    /\ \E task_id \in FreshTaskIds :
        LET rec == [req[r] EXCEPT !.task_id = task_id,
                                  !.ops = Append(@, "store_task")]
        IN \/ /\ tasks' = StoreTask(tasks, task_id, rec.filename,
                                    ChapterDicts(rec.chapters_of_subject))
              /\ req' = [req EXCEPT ![r] =
                     [rec EXCEPT !.pc = "finally", !.status = 200,
                                 !.body = [task_id |-> task_id,
                                           chapters |-> ResponseChapters(
                                                            rec.chapters_of_subject)]]]
           \/ /\ UNCHANGED tasks
              /\ req' = [req EXCEPT ![r] =
                     RaiseHTTP([rec EXCEPT !.cause = "StoreError"],
                               500, "Unexpected error: StoreError")]
    /\ UNCHANGED <<disk, conn>>

\* the finally block without the removal of lines 105-107
UploadFinally_NoRemove(r) ==
    /\ req[r].pc = "finally"
    /\ req' = [req EXCEPT ![r].pc = "done"]
    /\ UNCHANGED <<disk, tasks, conn>>

\* lines 100-107: the finally block, after file.close() returned
UploadFinally(r) ==
    /\ req[r].pc = "finally"
    /\ IF req[r].has_temp_path /\ Exists(disk, req[r].temp_path)
       THEN /\ disk' = [disk EXCEPT ![req[r].temp_path] = "absent"]
            /\ req' = [req EXCEPT ![r].pc = "done", ![r].ops = Append(@, "remove")]
       ELSE /\ UNCHANGED disk
            /\ req' = [req EXCEPT ![r].pc = "done"]
    /\ UNCHANGED <<tasks, conn>>

UploadStep(r) ==
    \/ UploadBegin(r)
    \/ UploadWrite(r)
    \/ UploadExtract(r)
    \/ UploadSegment(r)
    \/ UploadStore(r)
    \/ UploadFinally(r)

(***************************************************************************)
(* websocket_processing                                                    *)
(***************************************************************************)
\* Task ids a client can pass: the empty one, the ids uploads can return, and
\* one that no upload returns.
ClientTaskIds == {"", "t0"} \cup TaskIds

\* the check of line 118 left out
InvalidTaskId_Never(task_id) == FALSE

\* line 118: if not task_id
InvalidTaskId(task_id) == task_id = ""

\* db_service.get_chapters(task_id): the chapters stored under task_id, in
\* stored order; fails with NotFound when there is no record
Found(store, task_id) == task_id \in DOMAIN store /\ store[task_id].present
GetChapters(store, task_id) == store[task_id].chapters

\* Python's seq[start:stop] on a sequence of length n, indices counted from 0:
\* a negative bound counts from the end, and both bounds are clamped to 0..n
SliceBound(i, n) == IF i < 0 THEN Max(i + n, 0) ELSE Min(i, n)
PySlice(seq, start, stop) ==
    SubSeq(seq, SliceBound(start, Len(seq)) + 1, SliceBound(stop, Len(seq)))

\* the slice with end_chapter excluded
SelectedChapters_ExclusiveEnd(chapters, start_chapter, end_chapter) ==
    PySlice(chapters, start_chapter, end_chapter)

\* line 132: selected_chapters = chapters[start_chapter:end_chapter+1]
SelectedChapters(chapters, start_chapter, end_chapter) ==
    PySlice(chapters, start_chapter, end_chapter + 1)

\* the chapter number is the loop index itself, counted from 0
ProcessingEvent_ZeroBased(idx, selected_chapters) ==
    [status |-> "processing", chapter |-> idx,
     total_chapters |-> Len(selected_chapters)]

\* lines 137-141
ProcessingEvent(idx, selected_chapters) ==
    [status |-> "processing", chapter |-> idx + 1,
     total_chapters |-> Len(selected_chapters)]

\* lines 167-171
ChapterCompleteEvent(video_path, chapter) ==
    [status |-> "chapter_complete", video_path |-> video_path,
     chapter_title |-> chapter.title]

\* lines 177-180
CompletedEvent ==
    [status |-> "completed", message |-> "All chapters processed successfully"]

\* lines 183-186
ErrorEvent(e) == [status |-> "error", message |-> e]

\* What the pipeline stages return, as terms over their arguments
\* (lines 144-164)
GenerateScript(chapter, content_type) ==
    "script(" \o chapter.title \o "," \o content_type \o ")"
GenerateVoiceover(script) == "audio(" \o script \o ")"
GenerateSubtitles(audio_path) == "subtitles(" \o audio_path \o ")"
GenerateImage(script, content_type) ==
    "image(" \o script \o "," \o content_type \o ")"
CreateVideo(script, audio_path, subtitles, image_path) ==
    "video(" \o script \o "," \o audio_path \o "," \o subtitles \o ","
             \o image_path \o ")"

InitConn ==
    [pc |-> "idle", task_id |-> "", content_type |-> "", start_chapter |-> 0,
     end_chapter |-> 0, chapters |-> <<>>, selected_chapters |-> <<>>,
     idx |-> 0, script |-> "", audio_path |-> "", subtitles |-> "",
     image_path |-> "", video_path |-> "", e |-> "", trace |-> <<>>]

\* Log entries: what the websocket, the Task Store and the pipeline were asked
\* to do on behalf of a connection, and whether the call returned (ok) or raised
AcceptOp == [op |-> "accept"]
CloseOp(code, reason) == [op |-> "close", code |-> code, reason |-> reason]
LookupOp(task_id, ok) == [op |-> "get_chapters", task_id |-> task_id, ok |-> ok]
SendOp(event, ok) == [op |-> "send_json", event |-> event, ok |-> ok]
StageOp(stage, chapter, args, ok) ==
    [op |-> "stage", stage |-> stage, chapter |-> chapter, args |-> args, ok |-> ok]

\* the handler of line 182 sends an empty message
Raise_LosesMessage(rec, e) == [rec EXCEPT !.pc = "send_error", !.e = ""]

\* no except clause: the exception goes straight to the finally block
Raise_NoErrorEvent(rec, e) == [rec EXCEPT !.pc = "close", !.e = e]

\* an exception raised inside the try block (lines 124-180) is caught at line 182
Raise(rec, e) == [rec EXCEPT !.pc = "send_error", !.e = e]

\* an empty selection ends the handler without the "completed" event
NextChapter_SkipsCompleted(rec, idx) ==
    IF idx < Len(rec.selected_chapters)
    THEN [rec EXCEPT !.pc = "send_processing", !.idx = idx]
    ELSE IF rec.selected_chapters = <<>>
         THEN [rec EXCEPT !.pc = "close"]
         ELSE [rec EXCEPT !.pc = "send_completed"]

\* the loop of line 135 moves to its next element, or ends
NextChapter(rec, idx) ==
    IF idx < Len(rec.selected_chapters)
    THEN [rec EXCEPT !.pc = "send_processing", !.idx = idx]
    ELSE [rec EXCEPT !.pc = "send_completed"]

\* the connection is opened by a client that passes one of the given task
\* ids, content types and values of start_chapter: the parameters of lines
\* 110-116 are bound
StreamConnectWith(c, task_ids, content_types, start_chapters) ==
    /\ conn[c].pc = "idle"
    /\ \E task_id \in task_ids, content_type \in content_types,
          start_chapter \in start_chapters, end_chapter \in Indices :
        conn' = [conn EXCEPT ![c] =
            [@ EXCEPT !.pc = "validate", !.task_id = task_id,
                      !.content_type = content_type,
                      !.start_chapter = start_chapter,
                      !.end_chapter = end_chapter]]
    /\ UNCHANGED <<req, disk, tasks>>

\* the connection is opened by any client
StreamConnect(c) == StreamConnectWith(c, ClientTaskIds, ContentTypes, Indices)

\* lines 117-122
StreamValidate(c) ==
    /\ conn[c].pc = "validate"
    /\ IF InvalidTaskId(conn[c].task_id)
       THEN conn' = [conn EXCEPT ![c].pc = "done",
                ![c].trace = Append(@, CloseOp(4003, "Invalid task_id"))]
       ELSE conn' = [conn EXCEPT ![c].pc = "lookup",
                ![c].trace = Append(@, AcceptOp)]
    /\ UNCHANGED <<req, disk, tasks>>

\* the chapters kept in a module-level variable shared by the connections:
\* a connection gets the chapters another connection looked up before it
StreamLookup_SharedChapters(c) ==
    /\ conn[c].pc = "lookup"
    /\ Found(tasks, conn[c].task_id)
    /\ LET rec == conn[c]
           others == { d \in Conns \ {c} : conn[d].chapters # <<>> }
           chapters == IF others # {}
                       THEN conn[CHOOSE d \in others : TRUE].chapters
                       ELSE GetChapters(tasks, rec.task_id)
           sel == [rec EXCEPT
               !.chapters = chapters,
               !.selected_chapters =
                   PySlice(chapters, rec.start_chapter, rec.end_chapter + 1),
               !.trace = Append(@, LookupOp(rec.task_id, TRUE))]
       IN conn' = [conn EXCEPT ![c] =
              IF 0 < Len(sel.selected_chapters)
              THEN [sel EXCEPT !.pc = "send_processing", !.idx = 0]
              ELSE [sel EXCEPT !.pc = "send_completed"]]
    /\ UNCHANGED <<req, disk, tasks>>

\* lines 127-135: get_chapters, the slice, and the start of the loop
StreamLookup(c) ==
    /\ conn[c].pc = "lookup"
    /\ LET rec == conn[c] IN
       IF Found(tasks, rec.task_id)
       THEN LET chapters == GetChapters(tasks, rec.task_id)
                sel == [rec EXCEPT
                    !.chapters = chapters,
                    !.selected_chapters =
                        SelectedChapters(chapters, rec.start_chapter, rec.end_chapter),
                    !.trace = Append(@, LookupOp(rec.task_id, TRUE))]
            IN conn' = [conn EXCEPT ![c] = NextChapter(sel, 0)]
       ELSE conn' = [conn EXCEPT ![c] =
                Raise([rec EXCEPT !.trace = Append(@, LookupOp(rec.task_id, FALSE))],
                      "NotFound")]
    /\ UNCHANGED <<req, disk, tasks>>

\* lines 137-141
StreamSendProcessing(c) ==
    /\ conn[c].pc = "send_processing"
    /\ LET rec == conn[c]
           event == ProcessingEvent(rec.idx, rec.selected_chapters)
       IN \/ conn' = [conn EXCEPT ![c].pc = "generate_script",
                 ![c].trace = Append(@, SendOp(event, TRUE))]
          \/ conn' = [conn EXCEPT ![c] =
                 Raise([rec EXCEPT !.trace = Append(@, SendOp(event, FALSE))],
                       "SendError")]
    /\ UNCHANGED <<req, disk, tasks>>

\* the loop variable stuck on the first selected chapter
Chapter_AlwaysFirst(rec) == rec.selected_chapters[1]

\* the chapter of the current iteration (line 135)
Chapter(rec) == rec.selected_chapters[rec.idx + 1]

\* lines 144-147
StreamGenerateScript(c) ==
    /\ conn[c].pc = "generate_script"
    /\ LET rec == conn[c]
           args == <<Chapter(rec).title, rec.content_type>>
       IN \/ conn' = [conn EXCEPT ![c] =
                 [rec EXCEPT !.pc = "generate_voiceover",
                     !.script = GenerateScript(Chapter(rec), rec.content_type),
                     !.trace = Append(@, StageOp("generate_script", rec.idx + 1, args, TRUE))]]
          \/ conn' = [conn EXCEPT ![c] =
                 Raise([rec EXCEPT !.trace =
                     Append(@, StageOp("generate_script", rec.idx + 1, args, FALSE))],
                     "ScriptError")]
    /\ UNCHANGED <<req, disk, tasks>>

\* line 150
StreamGenerateVoiceover(c) ==
    /\ conn[c].pc = "generate_voiceover"
    /\ LET rec == conn[c]
           args == <<rec.script>>
       IN \/ conn' = [conn EXCEPT ![c] =
                 [rec EXCEPT !.pc = "generate_subtitles",
                     !.audio_path = GenerateVoiceover(rec.script),
                     !.trace = Append(@, StageOp("generate_voiceover", rec.idx + 1, args, TRUE))]]
          \/ conn' = [conn EXCEPT ![c] =
                 Raise([rec EXCEPT !.trace =
                     Append(@, StageOp("generate_voiceover", rec.idx + 1, args, FALSE))],
                     "VoiceError")]
    /\ UNCHANGED <<req, disk, tasks>>

\* line 153
StreamGenerateSubtitles(c) ==
    /\ conn[c].pc = "generate_subtitles"
    /\ LET rec == conn[c]
           args == <<rec.audio_path>>
       IN \/ conn' = [conn EXCEPT ![c] =
                 [rec EXCEPT !.pc = "generate_image",
                     !.subtitles = GenerateSubtitles(rec.audio_path),
                     !.trace = Append(@, StageOp("generate_subtitles", rec.idx + 1, args, TRUE))]]
          \/ conn' = [conn EXCEPT ![c] =
                 Raise([rec EXCEPT !.trace =
                     Append(@, StageOp("generate_subtitles", rec.idx + 1, args, FALSE))],
                     "SubtitlesError")]
    /\ UNCHANGED <<req, disk, tasks>>

\* line 156
StreamGenerateImage(c) ==
    /\ conn[c].pc = "generate_image"
    /\ LET rec == conn[c]
           args == <<rec.script, rec.content_type>>
       IN \/ conn' = [conn EXCEPT ![c] =
                 [rec EXCEPT !.pc = "create_video",
                     !.image_path = GenerateImage(rec.script, rec.content_type),
                     !.trace = Append(@, StageOp("generate_image", rec.idx + 1, args, TRUE))]]
          \/ conn' = [conn EXCEPT ![c] =
                 Raise([rec EXCEPT !.trace =
                     Append(@, StageOp("generate_image", rec.idx + 1, args, FALSE))],
                     "ImageError")]
    /\ UNCHANGED <<req, disk, tasks>>

\* a failed merge is swallowed: the handler goes on to send "chapter_complete"
StreamCreateVideo_IgnoresFailure(c) ==
    /\ conn[c].pc = "create_video"
    /\ LET rec == conn[c]
           args == <<rec.script, rec.audio_path, rec.subtitles, rec.image_path>>
       IN \E ok \in BOOLEAN :
            conn' = [conn EXCEPT ![c] =
                 [rec EXCEPT !.pc = "send_chapter_complete",
                     !.video_path = IF ok THEN CreateVideo(rec.script, rec.audio_path,
                                                    rec.subtitles, rec.image_path)
                                    ELSE "",
                     !.trace = Append(@, StageOp("create_video", rec.idx + 1, args, ok))]]
    /\ UNCHANGED <<req, disk, tasks>>

\* lines 159-164
StreamCreateVideo(c) ==
    /\ conn[c].pc = "create_video"
    /\ LET rec == conn[c]
           args == <<rec.script, rec.audio_path, rec.subtitles, rec.image_path>>
       IN \/ conn' = [conn EXCEPT ![c] =
                 [rec EXCEPT !.pc = "send_chapter_complete",
                     !.video_path = CreateVideo(rec.script, rec.audio_path,
                                                rec.subtitles, rec.image_path),
                     !.trace = Append(@, StageOp("create_video", rec.idx + 1, args, TRUE))]]
          \/ conn' = [conn EXCEPT ![c] =
                 Raise([rec EXCEPT !.trace =
                     Append(@, StageOp("create_video", rec.idx + 1, args, FALSE))],
                     "VideoError")]
    /\ UNCHANGED <<req, disk, tasks>>

\* a failed send of "chapter_complete" is swallowed: the loop goes on
StreamSendChapterComplete_IgnoresFailure(c) ==
    /\ conn[c].pc = "send_chapter_complete"
    /\ LET rec == conn[c]
           event == ChapterCompleteEvent(rec.video_path, Chapter(rec))
       IN \E ok \in BOOLEAN :
            conn' = [conn EXCEPT ![c].pc = "sleep",
                 ![c].trace = Append(@, SendOp(event, ok))]
    /\ UNCHANGED <<req, disk, tasks>>

\* lines 167-171
StreamSendChapterComplete(c) ==
    /\ conn[c].pc = "send_chapter_complete"
    /\ LET rec == conn[c]
           event == ChapterCompleteEvent(rec.video_path, Chapter(rec))
       IN \/ conn' = [conn EXCEPT ![c].pc = "sleep",
                 ![c].trace = Append(@, SendOp(event, TRUE))]
          \/ conn' = [conn EXCEPT ![c] =
                 Raise([rec EXCEPT !.trace = Append(@, SendOp(event, FALSE))],
                       "SendError")]
    /\ UNCHANGED <<req, disk, tasks>>

\* line 174, then the next iteration of the loop of line 135
StreamSleep(c) ==
    /\ conn[c].pc = "sleep"
    /\ conn' = [conn EXCEPT ![c] = NextChapter(conn[c], conn[c].idx + 1)]
    /\ UNCHANGED <<req, disk, tasks>>

\* the "completed" event is sent inside the loop's error path as well: after
\* it the handler of line 182 runs
StreamSendCompleted_ThenError(c) ==
    /\ conn[c].pc = "send_completed"
    /\ LET rec == conn[c] IN
          \E ok \in BOOLEAN :
            conn' = [conn EXCEPT ![c] =
                 Raise([rec EXCEPT !.trace = Append(@, SendOp(CompletedEvent, ok))],
                       "SendError")]
    /\ UNCHANGED <<req, disk, tasks>>

\* lines 177-180
StreamSendCompleted(c) ==
    /\ conn[c].pc = "send_completed"
    /\ LET rec == conn[c] IN
          \/ conn' = [conn EXCEPT ![c].pc = "close",
                 ![c].trace = Append(@, SendOp(CompletedEvent, TRUE))]
          \/ conn' = [conn EXCEPT ![c] =
                 Raise([rec EXCEPT !.trace = Append(@, SendOp(CompletedEvent, FALSE))],
                       "SendError")]
    /\ UNCHANGED <<req, disk, tasks>>

\* the handler of line 182 inside the loop: after the error event the loop
\* goes on with the next chapter
StreamSendError_Resumes(c) ==
    /\ conn[c].pc = "send_error"
    /\ \E ok \in BOOLEAN :
          conn' = [conn EXCEPT ![c].pc = "sleep",
              ![c].trace = Append(@, SendOp(ErrorEvent(conn[c].e), ok))]
    /\ UNCHANGED <<req, disk, tasks>>

\* no finally block: when the send of the error event raises, the handler ends
\* without closing
StreamSendError_NoFinally(c) ==
    /\ conn[c].pc = "send_error"
    /\ \/ conn' = [conn EXCEPT ![c].pc = "close",
              ![c].trace = Append(@, SendOp(ErrorEvent(conn[c].e), TRUE))]
       \/ conn' = [conn EXCEPT ![c].pc = "done",
              ![c].trace = Append(@, SendOp(ErrorEvent(conn[c].e), FALSE))]
    /\ UNCHANGED <<req, disk, tasks>>

\* lines 182-186: the handler of any exception of the try block.  When this
\* send raises too, the exception leaves the handler through the finally block.
StreamSendError(c) ==
    /\ conn[c].pc = "send_error"
    /\ \E ok \in BOOLEAN :
          conn' = [conn EXCEPT ![c].pc = "close",
              ![c].trace = Append(@, SendOp(ErrorEvent(conn[c].e), ok))]
    /\ UNCHANGED <<req, disk, tasks>>

\* lines 187-188
StreamClose(c) ==
    /\ conn[c].pc = "close"
    /\ conn' = [conn EXCEPT ![c].pc = "done",
           ![c].trace = Append(@, CloseOp(1000, ""))]
    /\ UNCHANGED <<req, disk, tasks>>

\* the steps of the handler, once the connection is opened
StreamRun(c) ==
    \/ StreamValidate(c)
    \/ StreamLookup(c)
    \/ StreamSendProcessing(c)
    \/ StreamGenerateScript(c)
    \/ StreamGenerateVoiceover(c)
    \/ StreamGenerateSubtitles(c)
    \/ StreamGenerateImage(c)
    \/ StreamCreateVideo(c)
    \/ StreamSendChapterComplete(c)
    \/ StreamSleep(c)
    \/ StreamSendCompleted(c)
    \/ StreamSendError(c)
    \/ StreamClose(c)

StreamStep(c) == StreamConnect(c) \/ StreamRun(c)

(***************************************************************************)
(* Specifications                                                          *)
(***************************************************************************)
\* Concurrent uploads, starting from an empty store and an empty directory.
InitUpload ==
    /\ req = [r \in Reqs |-> InitReq]
    /\ disk = [p \in TempPaths |-> "absent"]
    /\ tasks = [t \in TaskIds |-> NoTask]
    /\ conn = [c \in Conns |-> InitConn]

NextUpload == \E r \in Reqs : UploadStep(r)

SpecUpload == InitUpload /\ [][NextUpload]_vars

\* A request that completed: what upload_file leaves behind when it returned
\* 200 with the given filename and segmentation result under the given id.
DoneReq(filename, chapters_of_subject, task_id) ==
    [InitReq EXCEPT !.pc = "done", !.filename = filename, !.file_size = 1,
        !.has_temp_path = TRUE, !.temp_path = TempPath(filename),
        !.content = "u1", !.chapters_of_subject = chapters_of_subject,
        !.task_id = task_id, !.status = 200,
        !.body = [task_id |-> task_id,
                  chapters |-> ResponseChapters(chapters_of_subject)],
        !.ops = <<"open", "write", "process_file", "generact_list_of_subject",
                  "store_task", "remove">>]

\* One streaming connection, after an upload stored a task under t1.
InitStream ==
    /\ \E chapters_of_subject \in SegmentationResults :
        /\ req = [r \in Reqs |-> IF r = "u1"
                     THEN DoneReq("doc.txt", chapters_of_subject, "t1")
                     ELSE InitReq]
        /\ tasks = StoreTask([t \in TaskIds |-> NoTask], "t1", "doc.txt",
                             ChapterDicts(chapters_of_subject))
    /\ disk = [p \in TempPaths |-> "absent"]
    /\ conn = [c \in Conns |-> InitConn]

NextStream == StreamStep("c1")

SpecStream == InitStream /\ [][NextStream]_vars

\* Every await of the handler returns or raises: an opened connection keeps
\* taking steps.
FairSpecStream == SpecStream /\ WF_vars(StreamRun("c1"))

\* One upload and one streaming connection, from an empty store.
Init == InitUpload

Next == UploadStep("u1") \/ StreamStep("c1")

Spec == Init /\ [][Next]_vars

\* Two streaming connections for different tasks, after two uploads stored
\* t1 and t2: c1 is opened for t1, and c2 for t2 with the default
\* start_chapter (line 114).
InitStream2 ==
    /\ \E n \in {Min(MaxChapters, 5)} :
        LET first == SubSeq(<<"Intro", "Body", "Conclusion", "Annex", "Index">>, 1, n - 1)
            second == SubSeq(<<"Body", "Intro", "Annex", "Conclusion", "Index">>, 1, n - 1)
        IN /\ req = [r \in Reqs |-> IF r = "u1" THEN DoneReq("doc.txt", first, "t1")
                                   ELSE [DoneReq("notes.txt", second, "t2")
                                            EXCEPT !.content = "u2"]]
           /\ tasks = StoreTask(StoreTask([t \in TaskIds |-> NoTask], "t1",
                                          "doc.txt", ChapterDicts(first)),
                                "t2", "notes.txt", ChapterDicts(second))
    /\ disk = [p \in TempPaths |-> "absent"]
    /\ conn = [c \in Conns |-> InitConn]

NextStream2 ==
    \/ StreamConnectWith("c1", {"t1"}, {"KeyMoment"}, Indices) \/ StreamRun("c1")
    \/ StreamConnectWith("c2", {"t2"}, {"Quiz"}, {0}) \/ StreamRun("c2")

SpecStream2 == InitStream2 /\ [][NextStream2]_vars

\* A later upload and a streaming connection, after an upload stored a task
\* of two chapters under t1: the connection is opened for a task id the
\* service gave out, with the default start_chapter (line 114).
InitLater ==
    /\ req = [r \in Reqs |-> IF r = "u1"
                 THEN DoneReq("doc.txt", <<"Intro", "Body">>, "t1")
                 ELSE InitReq]
    /\ tasks = StoreTask([t \in TaskIds |-> NoTask], "t1", "doc.txt",
                         ChapterDicts(<<"Intro", "Body">>))
    /\ disk = [p \in TempPaths |-> "absent"]
    /\ conn = [c \in Conns |-> InitConn]

NextLater ==
    \/ UploadStep("u2")
    \/ StreamConnectWith("c1", TaskIds, {"KeyMoment"}, {0})
    \/ StreamRun("c1")

SpecLater == InitLater /\ [][NextLater]_vars

(***************************************************************************)
(* Observations on a connection's log                                      *)
(*                                                                         *)
(* An event is sent when a send_json call with it returned; a send_json    *)
(* call that raised sent nothing.                                          *)
(***************************************************************************)
Trace(c) == conn[c].trace

Closed(c) == conn[c].pc = "done"

\* the events sent on connection c, in order
Sent(c) ==
    LET s == SelectSeq(Trace(c), LAMBDA x : x.op = "send_json" /\ x.ok)
    IN [i \in 1 .. Len(s) |-> s[i].event]

SentWith(c, status) == SelectSeq(Sent(c), LAMBDA ev : ev.status = status)

\* the pipeline-stage calls made for connection c, in order
StageCalls(c) == SelectSeq(Trace(c), LAMBDA x : x.op = "stage")

Lookups(c) == SelectSeq(Trace(c), LAMBDA x : x.op = "get_chapters")

\* the calls that raised
HasOutcome(x) == x.op \in {"get_chapters", "send_json", "stage"}
Failures(c) == SelectSeq(Trace(c), LAMBDA x : HasOutcome(x) /\ ~x.ok)

\* the lookup found a record, and no later call raised
AllSucceeded(c) ==
    /\ Lookups(c) # <<>>
    /\ Failures(c) = <<>>

Titles(chapters) == [i \in 1 .. Len(chapters) |-> chapters[i].title]

\* the chapters stored for the task of connection c when it looked them up
Stored(c) == conn[c].chapters

\* ev is k ("processing", "chapter_complete") pairs numbered 1..k
IsPairs(ev, k) ==
    /\ k >= 0
    /\ Len(ev) = 2 * k
    /\ \A j \in 1 .. k :
        /\ ev[2 * j - 1].status = "processing"
        /\ ev[2 * j - 1].chapter = j
        /\ ev[2 * j].status = "chapter_complete"

\* the events of the chapter loop: everything sent but the terminal event
LoopEvents(c) ==
    SelectSeq(Sent(c), LAMBDA ev : ev.status \in {"processing", "chapter_complete"})

InRange(c) ==
    /\ 0 <= conn[c].start_chapter
    /\ conn[c].start_chapter <= conn[c].end_chapter
    /\ conn[c].end_chapter < Len(Stored(c))

\* The indices (from 0) of the stored chapters that chapters[s:e+1] selects:
\* a negative s or e+1 counts from the end of the list.
FromEnd(i, n) == IF i < 0 THEN i + n ELSE i
SliceIndices(n, s, e) ==
    { i \in 0 .. n - 1 : FromEnd(s, n) <= i /\ i < FromEnd(e + 1, n) }

(***************************************************************************)
(* C1: for a stored task id and a range [s, e] in which every stage (and   *)
(* every send) succeeds, the events sent before "completed" are e - s + 1  *)
(* ("processing", "chapter_complete") pairs, numbered 1, 2, ... in order,  *)
(* whatever the number of stored chapters.                                 *)
(* This is the claim as stated; the code violates it.                      *)
(***************************************************************************)
C1_PairsEqualRangeLength ==
    \A c \in Conns :
        Closed(c) /\ AllSucceeded(c) =>
            IsPairs(LoopEvents(c), conn[c].end_chapter - conn[c].start_chapter + 1)

(***************************************************************************)
(* C1 amended: under the same conditions the pairs are numbered 1, 2, ...  *)
(* and their number is the number of stored chapters that the slice        *)
(* chapters[s:e+1] selects; that number is e - s + 1 when                  *)
(* 0 <= s <= e < number of stored chapters.                                *)
(***************************************************************************)
C1_PairsEqualSliceLength ==
    \A c \in Conns :
        Closed(c) /\ AllSucceeded(c) =>
            /\ IsPairs(LoopEvents(c),
                       Cardinality(SliceIndices(Len(Stored(c)), conn[c].start_chapter,
                                                conn[c].end_chapter)))
            /\ InRange(c) =>
                  IsPairs(LoopEvents(c),
                          conn[c].end_chapter - conn[c].start_chapter + 1)

\* two pairs were sent for an in-range [s, e] with e = s + 1
C1_Witness ==
    \E c \in Conns :
        /\ Closed(c) /\ AllSucceeded(c) /\ InRange(c)
        /\ conn[c].end_chapter = conn[c].start_chapter + 1
        /\ IsPairs(LoopEvents(c), 2)

ExceptionMessage(x) ==
    IF x.op = "send_json" THEN "SendError"
    ELSE IF x.op = "get_chapters" THEN "NotFound"
    ELSE CASE x.stage = "generate_script" -> "ScriptError"
           [] x.stage = "generate_voiceover" -> "VoiceError"
           [] x.stage = "generate_subtitles" -> "SubtitlesError"
           [] x.stage = "generate_image" -> "ImageError"
           [] x.stage = "create_video" -> "VideoError"

\* the position in the log of the first call that raised
FailedAt(c) ==
    CHOOSE i \in 1 .. Len(Trace(c)) :
        /\ HasOutcome(Trace(c)[i]) /\ ~Trace(c)[i].ok
        /\ \A j \in 1 .. i - 1 : ~(HasOutcome(Trace(c)[j]) /\ ~Trace(c)[j].ok)

\* the first call that raised was made in the chapter loop: a pipeline stage,
\* or the send of a "processing" or "chapter_complete" event
LoopFailure(c) ==
    /\ Failures(c) # <<>>
    /\ LET x == Failures(c)[1] IN
          \/ x.op = "stage"
          \/ x.op = "send_json" /\ x.event.status \in {"processing", "chapter_complete"}

\* the selected chapter (from 1) in progress when the first call raised: the
\* number of "processing" sends made so far
FailedChapter(c) ==
    Len(SelectSeq(Trace(c),
            LAMBDA x : x.op = "send_json" /\ x.event.status = "processing"))

IsPrefix(s, t) == Len(s) <= Len(t) /\ s = SubSeq(t, 1, Len(s))

\* after the first failure the handler makes one attempt to send the error
\* event with the message of the exception, closes, and does nothing else
StopsAfterFailure(c) ==
    LET k == FailedAt(c)
        rest == SubSeq(Trace(c), k + 1, Len(Trace(c)))
        error == ErrorEvent(ExceptionMessage(Trace(c)[k]))
    IN /\ \E ok \in BOOLEAN :
              IsPrefix(rest, <<SendOp(error, ok), CloseOp(1000, "")>>)
       /\ Closed(c) => Len(rest) = 2

\* what happened before the failure in chapter i: i - 1 chapters completed,
\* every stage called at most once per chapter, nothing for a later chapter
NothingBeyondFailedChapter(c) ==
    LET i == FailedChapter(c) IN
    /\ Len(SentWith(c, "chapter_complete")) = i - 1
    /\ SentWith(c, "completed") = <<>>
    /\ \A m \in 1 .. Len(StageCalls(c)) :
          /\ StageCalls(c)[m].chapter <= i
          /\ \A n \in 1 .. Len(StageCalls(c)) :
                (/\ StageCalls(c)[m].stage = StageCalls(c)[n].stage
                 /\ StageCalls(c)[m].chapter = StageCalls(c)[n].chapter) => m = n

(***************************************************************************)
(* C4: when a pipeline stage or an event send raises while selected        *)
(* chapter i is processed, exactly one "error" event carrying the          *)
(* exception's message is sent and the connection stops: no                *)
(* "chapter_complete" for chapter i, nothing for a later chapter, no       *)
(* "completed" event, no stage retried.                                    *)
(* This is the claim as stated; the code violates it when the send of the  *)
(* error event raises as well.                                             *)
(***************************************************************************)
C4_OneErrorEventSent ==
    \A c \in Conns :
        Closed(c) /\ LoopFailure(c) =>
            /\ StopsAfterFailure(c)
            /\ NothingBeyondFailedChapter(c)
            /\ Len(SentWith(c, "error")) = 1

(***************************************************************************)
(* C4 amended: when a pipeline stage or an event send raises while         *)
(* selected chapter i is processed, the handler makes exactly one attempt  *)
(* to send an "error" event carrying the exception's message (the event is *)
(* sent unless that send raises as well) and then stops: no                *)
(* "chapter_complete" for chapter i, nothing for a later chapter, no       *)
(* "completed" event, no stage retried.                                    *)
(***************************************************************************)
C4_OneErrorSendAttempted ==
    \A c \in Conns :
        LoopFailure(c) =>
            /\ StopsAfterFailure(c)
            /\ NothingBeyondFailedChapter(c)
            /\ Len(SentWith(c, "error")) <= 1
            /\ Closed(c) =>
                  (Len(SentWith(c, "error")) = 1 <=> Len(Failures(c)) = 1)

\* the merge of the second chapter raised, the error event was sent and the
\* connection is closed
C4_Witness ==
    \E c \in Conns :
        /\ Closed(c) /\ LoopFailure(c) /\ FailedChapter(c) = 2
        /\ Failures(c)[1].op = "stage" /\ Failures(c)[1].stage = "create_video"
        /\ SentWith(c, "error") = <<ErrorEvent("VideoError")>>

(***************************************************************************)
(* C5: a connection with a non-empty task id that has no record in the     *)
(* Task Store sends exactly one "error" event and is then closed; it sends *)
(* no other event and calls no pipeline stage.                             *)
(* This is the claim as stated; the code violates it when the send of the  *)
(* error event raises.                                                     *)
(***************************************************************************)
C5_UnknownTaskOneErrorEvent ==
    \A c \in Conns :
        Closed(c) /\ Lookups(c) # <<>> /\ ~Lookups(c)[1].ok =>
            /\ Len(Sent(c)) = 1
            /\ Sent(c)[1].status = "error"
            /\ StageCalls(c) = <<>>
            /\ Trace(c)[Len(Trace(c))].op = "close"

(***************************************************************************)
(* C5 amended: a connection with a non-empty task id that has no record in *)
(* the Task Store makes exactly one attempt to send an "error" event (the  *)
(* event is sent unless that send raises) and is then closed; it sends no  *)
(* other event and calls no pipeline stage.                                *)
(***************************************************************************)
C5_UnknownTaskOneErrorAttempt ==
    \A c \in Conns :
        Lookups(c) # <<>> /\ ~Lookups(c)[1].ok =>
            /\ conn[c].task_id # ""
            /\ \E ok \in BOOLEAN :
                  /\ IsPrefix(Trace(c),
                        <<AcceptOp, LookupOp(conn[c].task_id, FALSE),
                          SendOp(ErrorEvent("NotFound"), ok), CloseOp(1000, "")>>)
                  /\ Sent(c) = IF ok /\ Len(Trace(c)) >= 3
                               THEN <<ErrorEvent("NotFound")>> ELSE <<>>
            /\ Closed(c) <=> Len(Trace(c)) = 4

\* an unknown task id: the error event was sent and the connection closed
C5_Witness ==
    \E c \in Conns :
        /\ Closed(c) /\ conn[c].task_id = "t0"
        /\ Sent(c) = <<ErrorEvent("NotFound")>>
        /\ Trace(c)[Len(Trace(c))] = CloseOp(1000, "")

\* a close is the last thing done on a connection, and a connection whose
\* handler has ended was closed
CloseIsLast(c) ==
    /\ \A i \in 1 .. Len(Trace(c)) :
          Trace(c)[i].op = "close" => i = Len(Trace(c)) /\ Closed(c)
    /\ Closed(c) => Trace(c) # <<>> /\ Trace(c)[Len(Trace(c))].op = "close"

(***************************************************************************)
(* C6: every opened connection is eventually closed, whatever its outcome  *)
(* (provided every await returns or raises); close is the last action on   *)
(* the connection and no event is sent after it.                           *)
(***************************************************************************)
C6_EventuallyClosed ==
    /\ [](\A c \in Conns : CloseIsLast(c))
    /\ \A c \in Conns : (conn[c].pc # "idle") ~> Closed(c)

\* a connection is closed after an event send and the send of the error event
\* both raised
C6_Witness ==
    \E c \in Conns :
        /\ Closed(c) /\ Len(Failures(c)) = 2
        /\ Failures(c)[2].event.status = "error"
        /\ Trace(c)[Len(Trace(c))].op = "close"

(***************************************************************************)
(* C7: for every upload that returned success, the chapter list of the     *)
(* response is the list segmentation returned, in the same order, and a    *)
(* get_chapters lookup by the returned task_id, from then on, yields the   *)
(* chapter titles in that order (also when made by a streaming             *)
(* connection).                                                            *)
(***************************************************************************)
C7_ChapterOrderKept ==
    \A r \in Reqs :
        req[r].status = 200 =>
            /\ req[r].body.chapters = req[r].chapters_of_subject
            /\ Found(tasks, req[r].body.task_id)
            /\ Titles(GetChapters(tasks, req[r].body.task_id))
                   = req[r].chapters_of_subject
            /\ \A c \in Conns :
                  (/\ conn[c].task_id = req[r].body.task_id
                   /\ Lookups(c) # <<>> /\ Lookups(c)[1].ok)
                  => Titles(conn[c].chapters) = req[r].chapters_of_subject

\* a connection looked up the three chapters of an upload that put "Body"
\* first
C7_Witness ==
    \E r \in Reqs, c \in Conns :
        /\ req[r].status = 200 /\ req[r].ops # <<>>
        /\ req[r].ops[Len(req[r].ops)] = "store_task"
        /\ req[r].chapters_of_subject = <<"Body", "Intro", "Annex">>
        /\ conn[c].task_id = req[r].body.task_id
        /\ Lookups(c) # <<>> /\ Lookups(c)[1].ok
        /\ Titles(conn[c].chapters) = <<"Body", "Intro", "Annex">>

\* the titles carried by the "chapter_complete" events sent, in order
CompletedTitles(c) ==
    LET ev == SentWith(c, "chapter_complete")
    IN [i \in 1 .. Len(ev) |-> ev[i].chapter_title]

\* the titles of the stored chapters at those of the indices lo..hi (from 0)
\* that exist, in stored order
TitlesAt(chapters, lo, hi) ==
    LET first == Max(lo, 0)
        last == Min(hi, Len(chapters) - 1)
    IN [j \in 1 .. Max(last - first + 1, 0) |-> chapters[first + j].title]

\* the titles of the stored chapters that chapters[s:e+1] selects
SliceTitles(chapters, s, e) ==
    LET n == Len(chapters) IN
    TitlesAt(chapters, FromEnd(s, n), FromEnd(e + 1, n) - 1)

\* the events sent are those of the loop followed by one "completed" event
EndsWithOneCompleted(c) ==
    /\ Sent(c) = Append(LoopEvents(c), CompletedEvent)
    /\ Len(LoopEvents(c)) = 2 * Len(SentWith(c, "chapter_complete"))

(***************************************************************************)
(* C8: for a stored task and a range [s, e] where every stage (and every   *)
(* send) succeeds, the "chapter_complete" events carry, in order, the      *)
(* titles of the stored chapters at indices s..e in stored order, one      *)
(* event per chapter, and are followed by exactly one "completed" event.   *)
(* This is the claim as stated; the code violates it for a negative s or   *)
(* e + 1, which Python counts from the end of the list.                    *)
(***************************************************************************)
C8_TitlesOfRange ==
    \A c \in Conns :
        Closed(c) /\ AllSucceeded(c) =>
            /\ CompletedTitles(c) =
                   TitlesAt(Stored(c), conn[c].start_chapter, conn[c].end_chapter)
            /\ EndsWithOneCompleted(c)

(***************************************************************************)
(* C8 amended: under the same conditions the "chapter_complete" events     *)
(* carry, in order, the titles of the stored chapters that the slice       *)
(* chapters[s:e+1] selects, one event per chapter, followed by exactly one *)
(* "completed" event; these are the stored chapters at indices s..e when   *)
(* 0 <= s and 0 <= e + 1 (those of them that exist), and in particular     *)
(* when 0 <= s <= e < number of stored chapters.                           *)
(***************************************************************************)
C8_TitlesOfSlice ==
    \A c \in Conns :
        Closed(c) /\ AllSucceeded(c) =>
            /\ CompletedTitles(c) =
                   SliceTitles(Stored(c), conn[c].start_chapter, conn[c].end_chapter)
            /\ conn[c].start_chapter >= 0 /\ conn[c].end_chapter + 1 >= 0 =>
                  CompletedTitles(c) =
                      TitlesAt(Stored(c), conn[c].start_chapter, conn[c].end_chapter)
            /\ InRange(c) =>
                  CompletedTitles(c) =
                      SubSeq(Titles(Stored(c)), conn[c].start_chapter + 1,
                             conn[c].end_chapter + 1)
            /\ EndsWithOneCompleted(c)

\* chapters [Intro, Body, Conclusion] and range [0, 1]: chapter_complete for
\* Intro, then Body, then one completed
C8_Witness ==
    \E c \in Conns :
        /\ Closed(c) /\ AllSucceeded(c)
        /\ Titles(Stored(c)) = <<"Intro", "Body", "Conclusion">>
        /\ conn[c].start_chapter = 0 /\ conn[c].end_chapter = 1
        /\ CompletedTitles(c) = <<"Intro", "Body">>
        /\ Sent(c)[Len(Sent(c))] = CompletedEvent

\* request r has been through the validation of lines 44-54
Validated(r) == req[r].pc # "idle"

\* request r stored nothing, wrote no file and called no collaborator
NoEffect(r) ==
    /\ req[r].ops = <<>>
    /\ req[r].task_id = ""
    /\ ~req[r].has_temp_path
    /\ \A t \in TaskIds : tasks[t].present => \E q \in Reqs \ {r} : req[q].task_id = t

(***************************************************************************)
(* C9: an upload of more than 100 MB is rejected with status 413, without  *)
(* storing a task record, writing a temporary file or calling extraction   *)
(* or segmentation; an upload of exactly 100 MB is not rejected for size.  *)
(* This is the claim as stated; the code violates it for an upload of more *)
(* than 100 MB with an empty filename, which is rejected with status 400.  *)
(***************************************************************************)
C9_OversizeRejected413 ==
    \A r \in Reqs :
        Validated(r) =>
            /\ req[r].file_size > 100 * 1024 * 1024 =>
                  req[r].status = 413 /\ NoEffect(r)
            /\ req[r].file_size = 100 * 1024 * 1024 => req[r].status # 413

(***************************************************************************)
(* C9 amended: an upload of more than 100 MB is rejected, with status 413  *)
(* when it has a filename and with status 400 when its filename is empty,  *)
(* without storing a task record, writing a temporary file or calling      *)
(* extraction or segmentation; an upload of exactly 100 MB is not rejected *)
(* for size.                                                               *)
(***************************************************************************)
C9_OversizeRejected ==
    \A r \in Reqs :
        Validated(r) =>
            /\ req[r].file_size > 100 * 1024 * 1024 =>
                  /\ req[r].status = IF req[r].filename = "" THEN 400 ELSE 413
                  /\ NoEffect(r)
            /\ req[r].file_size = 100 * 1024 * 1024 => req[r].status # 413

\* one upload over the limit got 413 and one of exactly 100 MB got 200
C9_Witness ==
    \E r, q \in Reqs :
        /\ req[r].pc = "done" /\ req[r].file_size = 100 * 1024 * 1024 + 1
        /\ req[r].status = 413 /\ req[r].ops = <<>>
        /\ req[q].pc = "done" /\ req[q].file_size = 100 * 1024 * 1024
        /\ req[q].status = 200

(***************************************************************************)
(* C10: a failure raised by text extraction or segmentation during an      *)
(* upload results in a 422 response carrying the cause text, never a 500,  *)
(* and no task record is stored for that upload; a failure of store_task   *)
(* results in a 500 response.                                              *)
(* The code violates it: see ProcessingFailed.                             *)
(***************************************************************************)
C10_ProcessingFailureIs422 ==
    \A r \in Reqs :
        req[r].pc \in {"finally", "done"} =>
            /\ req[r].cause \in {"ExtractError", "SegmentError"} =>
                  /\ req[r].status = 422
                  /\ req[r].detail = "Error processing file: " \o req[r].cause
                  /\ req[r].task_id = ""
            /\ req[r].cause = "StoreError" => req[r].status = 500

\* the status upload request r gets when it runs alone, given its inputs and
\* the exception (if any) that one of its own collaborator calls raised
AloneStatus(r) ==
    IF req[r].filename = "" THEN 400
    ELSE IF req[r].file_size > 100 * 1024 * 1024 THEN 413
    ELSE CASE req[r].cause = "" -> 200
           [] req[r].cause \in {"ExtractError", "SegmentError"} -> 422
           [] req[r].cause \in {"IOError", "StoreError"} -> 500

(***************************************************************************)
(* C11: upload requests share nothing but the Task Store: under any        *)
(* interleaving of two uploads (also of files with the same filename) a    *)
(* request ends with the status it gets when run alone, the text it        *)
(* extracted is that of its own file, and a task record is stored for it   *)
(* exactly when it succeeds.                                               *)
(* The code violates it: uploads of files with the same filename share the *)
(* temporary file (TempPath).                                              *)
(***************************************************************************)
C11_UploadsIndependent ==
    \A r \in Reqs :
        req[r].pc = "done" =>
            /\ req[r].status = AloneStatus(r)
            /\ req[r].content \in {"none", r}
            /\ req[r].status = 200 <=>
                  /\ req[r].task_id # ""
                  /\ tasks[req[r].task_id] =
                         [filename |-> req[r].filename,
                          chapters |-> [i \in 1 .. Len(req[r].chapters_of_subject) |->
                                           [title |-> req[r].chapters_of_subject[i]]],
                          present |-> TRUE]

\* entry number pos (1..7) of the log of the processing of selected chapter j
\* of total, every call returning: the events built as in lines 137-141 and
\* 167-171, each stage called with what the stages before it returned
ChapterRun(title, j, total, content_type, pos) ==
    LET script == GenerateScript([title |-> title], content_type)
        audio_path == GenerateVoiceover(script)
        subtitles == GenerateSubtitles(audio_path)
        image_path == GenerateImage(script, content_type)
        video_path == CreateVideo(script, audio_path, subtitles, image_path)
    IN CASE pos = 1 ->
              [op |-> "send_json", ok |-> TRUE,
               event |-> [status |-> "processing", chapter |-> j,
                          total_chapters |-> total]]
         [] pos = 2 ->
              [op |-> "stage", stage |-> "generate_script", chapter |-> j,
               args |-> <<title, content_type>>, ok |-> TRUE]
         [] pos = 3 ->
              [op |-> "stage", stage |-> "generate_voiceover", chapter |-> j,
               args |-> <<script>>, ok |-> TRUE]
         [] pos = 4 ->
              [op |-> "stage", stage |-> "generate_subtitles", chapter |-> j,
               args |-> <<audio_path>>, ok |-> TRUE]
         [] pos = 5 ->
              [op |-> "stage", stage |-> "generate_image", chapter |-> j,
               args |-> <<script, content_type>>, ok |-> TRUE]
         [] pos = 6 ->
              [op |-> "stage", stage |-> "create_video", chapter |-> j,
               args |-> <<script, audio_path, subtitles, image_path>>, ok |-> TRUE]
         [] pos = 7 ->
              [op |-> "send_json", ok |-> TRUE,
               event |-> [status |-> "chapter_complete", video_path |-> video_path,
                          chapter_title |-> title]]

\* the log of a connection for a stored task that runs alone and on which
\* every call returns, given the parameters and the chapters stored for the
\* task
RunAlone(task_id, content_type, s, e, chapters) ==
    LET titles == SliceTitles(chapters, s, e)
        k == Len(titles)
    IN [i \in 1 .. 7 * k + 4 |->
          IF i = 1 THEN [op |-> "accept"]
          ELSE IF i = 2 THEN [op |-> "get_chapters", task_id |-> task_id, ok |-> TRUE]
          ELSE IF i = 7 * k + 3
               THEN [op |-> "send_json", ok |-> TRUE,
                     event |-> [status |-> "completed",
                                message |-> "All chapters processed successfully"]]
          ELSE IF i = 7 * k + 4 THEN [op |-> "close", code |-> 1000, reason |-> ""]
          ELSE ChapterRun(titles[((i - 3) \div 7) + 1], ((i - 3) \div 7) + 1, k,
                          content_type, ((i - 3) % 7) + 1)]

\* the log of connection c is one that c produces when it runs alone: it
\* depends only on c's parameters, the chapters of c's task and the outcomes
\* of c's own calls.  Up to the first call that raised it is the log of the
\* run in which every call returns; the call that raised is followed by the
\* send of the error event and by close.
BehavesAsAlone(c) ==
    LET log == conn[c].trace
        n == Len(log)
        run == RunAlone(conn[c].task_id, conn[c].content_type,
                        conn[c].start_chapter, conn[c].end_chapter,
                        tasks[conn[c].task_id].chapters)
        m == 7 * Len(SliceTitles(tasks[conn[c].task_id].chapters,
                                 conn[c].start_chapter, conn[c].end_chapter)) + 4
        raised == { i \in 1 .. n : HasOutcome(log[i]) /\ ~log[i].ok }
        f == IF raised = {} THEN n + 1
             ELSE CHOOSE i \in raised : \A j \in raised : i <= j
    IN /\ \A i \in 1 .. Min(n, f - 1) : i <= m /\ log[i] = run[i]
       /\ f <= n =>
             /\ f \in 3 .. m - 1
             /\ log[f] = [run[f] EXCEPT !.ok = FALSE]
             /\ n <= f + 2
             /\ n >= f + 1 =>
                   /\ log[f + 1].op = "send_json"
                   /\ log[f + 1].event =
                          [status |-> "error", message |-> ExceptionMessage(run[f])]
             /\ n >= f + 2 => log[f + 2] = [op |-> "close", code |-> 1000, reason |-> ""]

(***************************************************************************)
(* C12: concurrent streaming connections for different task ids do not     *)
(* interfere: under any interleaving of their steps the log of each        *)
(* connection, and so the sequence of events sent on it, is one that the   *)
(* connection produces when run alone, and it carries only chapters of its *)
(* own task.                                                               *)
(***************************************************************************)
C12_ConnectionsIndependent ==
    \A c \in Conns :
        conn[c].pc \notin {"idle", "validate"} /\ Found(tasks, conn[c].task_id) =>
            /\ BehavesAsAlone(c)
            /\ Closed(c) => Trace(c)[Len(Trace(c))].op = "close"
            /\ \A i \in 1 .. Len(Trace(c)) :
                  (/\ Trace(c)[i].op = "send_json"
                   /\ Trace(c)[i].event.status = "chapter_complete") =>
                      \E j \in 1 .. Len(tasks[conn[c].task_id].chapters) :
                          tasks[conn[c].task_id].chapters[j].title
                              = Trace(c)[i].event.chapter_title

\* both connections are in the middle of their second chapter
C12_Witness ==
    /\ conn["c1"].pc = "create_video" /\ conn["c1"].idx = 1
    /\ conn["c2"].pc = "generate_script" /\ conn["c2"].idx = 1
    /\ conn["c1"].task_id # conn["c2"].task_id
    /\ Len(SentWith("c1", "chapter_complete")) = 1
    /\ Len(SentWith("c2", "chapter_complete")) = 1

\* The state of a connection in the state machine of the streaming endpoint:
\* Idle before the handler is called, Validating until line 118 is passed,
\* Streaming inside the try block (lines 124-180), Errored once an exception
\* reached line 182, Completed once the "completed" event was sent, Closed
\* when the handler has ended.
ConnState(rec) ==
    CASE rec.pc = "idle" -> "Idle"
      [] rec.pc = "validate" -> "Validating"
      [] rec.pc = "send_error" -> "Errored"
      [] rec.pc = "close" -> IF rec.e = "" THEN "Completed" ELSE "Errored"
      [] rec.pc = "done" -> "Closed"
      [] OTHER -> "Streaming"

StateMachine ==
    { <<"Idle", "Validating">>, <<"Validating", "Streaming">>,
      <<"Streaming", "Completed">>, <<"Streaming", "Errored">>,
      <<"Completed", "Closed">>, <<"Errored", "Closed">> }

(***************************************************************************)
(* C13: a connection changes state only along Idle -> Validating ->        *)
(* Streaming -> (Completed or Errored) -> Closed: Streaming is entered     *)
(* only from Validating, Closed only from Completed or Errored, and        *)
(* nothing changes once Closed.                                            *)
(* This is the claim as stated; the code violates it for an empty task_id, *)
(* where the connection goes from Validating to Closed.                    *)
(***************************************************************************)
C13_StateMachine ==
    [][\A c \in Conns :
          /\ ConnState(conn[c]) # ConnState(conn'[c]) =>
                <<ConnState(conn[c]), ConnState(conn'[c])>> \in StateMachine
          /\ ConnState(conn[c]) = "Closed" => conn'[c] = conn[c]]_vars

(***************************************************************************)
(* C13 amended: a connection changes state only along Idle -> Validating   *)
(* -> Streaming -> (Completed or Errored) -> Closed, or, when its task_id  *)
(* is empty, along Idle -> Validating -> Closed: Streaming is entered only *)
(* from Validating and only with a non-empty task_id, Closed is entered    *)
(* only from Completed or Errored or, with an empty task_id, from          *)
(* Validating, and nothing changes once Closed.                            *)
(***************************************************************************)
C13_StateMachineWithReject ==
    [][\A c \in Conns :
          /\ ConnState(conn[c]) # ConnState(conn'[c]) =>
                IF ConnState(conn[c]) = "Validating"
                THEN ConnState(conn'[c]) =
                         IF conn[c].task_id = "" THEN "Closed" ELSE "Streaming"
                ELSE <<ConnState(conn[c]), ConnState(conn'[c])>> \in StateMachine
          /\ ConnState(conn[c]) = "Closed" => conn'[c] = conn[c]]_vars

\* a connection went through Streaming and Completed and is Closed
C13_Witness ==
    \E c \in Conns :
        /\ ConnState(conn[c]) = "Closed" /\ conn[c].e = ""
        /\ Len(SentWith(c, "chapter_complete")) = 2
        /\ SentWith(c, "completed") # <<>>

(***************************************************************************)
(* C14: a task record, once created, is never modified: no step of a       *)
(* streaming connection and no step of a later upload changes the record   *)
(* stored under an id, and no step of a streaming connection changes the   *)
(* Task Store at all.                                                      *)
(***************************************************************************)
C14_TaskRecordImmutable ==
    [][/\ \A t \in TaskIds : tasks[t].present => tasks'[t] = tasks[t]
       /\ (\E c \in Conns : conn'[c] # conn[c]) => tasks' = tasks]_vars

\* a later upload stored its task and a connection streamed a chapter of the
\* first task
C14_Witness ==
    /\ tasks["t1"].present /\ tasks["t2"].present
    /\ req["u2"].pc = "done" /\ req["u2"].status = 200
    /\ conn["c1"].task_id = "t1"
    /\ SentWith("c1", "chapter_complete") # <<>>

\* x is a call of the given pipeline stage
IsStage(x, stage) == x.op = "stage" /\ x.stage = stage

\* x is a call of the given stage that returned
StageDone(x, stage) == IsStage(x, stage) /\ x.ok

\* x is an attempt to send an event of the given status
IsSend(x, status) == x.op = "send_json" /\ x.event.status = status

\* The calls of log t follow the order of one chapter up to position i: the
\* call at i comes right after the step before it in the chapter's order,
\* which returned, and takes what the earlier steps produced.
InChapterOrder(t, i) ==
    LET x == t[i]
        p == t[i - 1]
        pp == t[i - 2]
    IN /\ IsStage(x, "generate_script") =>
            /\ IsSend(p, "processing") /\ p.ok
            /\ p.event.chapter = x.chapter
       /\ IsStage(x, "generate_voiceover") =>
            /\ StageDone(p, "generate_script") /\ p.chapter = x.chapter
            /\ x.args = <<GenerateScript([title |-> p.args[1]], p.args[2])>>
       /\ IsStage(x, "generate_subtitles") =>
            /\ StageDone(p, "generate_voiceover") /\ p.chapter = x.chapter
            /\ x.args = <<GenerateVoiceover(p.args[1])>>
       /\ IsStage(x, "generate_image") =>
            /\ StageDone(p, "generate_subtitles") /\ p.chapter = x.chapter
            /\ i > 2 /\ IsStage(pp, "generate_voiceover")
            /\ x.args[1] = pp.args[1]
       /\ IsStage(x, "create_video") =>
            /\ StageDone(p, "generate_image") /\ p.chapter = x.chapter
            /\ i > 2 /\ IsStage(pp, "generate_subtitles")
            /\ x.args = <<p.args[1], pp.args[1], GenerateSubtitles(pp.args[1]),
                          GenerateImage(p.args[1], p.args[2])>>
       /\ IsSend(x, "chapter_complete") =>
            /\ StageDone(p, "create_video")
            /\ x.event.video_path =
                   CreateVideo(p.args[1], p.args[2], p.args[3], p.args[4])

(***************************************************************************)
(* C15: within one chapter the steps run in a fixed order, each taking     *)
(* what the earlier ones produced: the "processing" event is sent, then    *)
(* the script is generated, the voice from that script, the subtitles from *)
(* that audio, the image from that script, the four are merged, and then   *)
(* "chapter_complete" is sent with the merged video. A "chapter_complete"  *)
(* is never sent (nor attempted) for a chapter whose merge did not return. *)
(***************************************************************************)
C15_StepsInOrder ==
    \A c \in Conns : \A i \in 2 .. Len(Trace(c)) : InChapterOrder(Trace(c), i)

\* one chapter went through all its steps and was reported, and the merge
\* of the next chapter raised
C15_Witness ==
    \E c \in Conns :
        /\ Len(SentWith(c, "chapter_complete")) = 1
        /\ \E i \in 1 .. Len(Trace(c)) :
              IsStage(Trace(c)[i], "create_video") /\ ~Trace(c)[i].ok
                  /\ Trace(c)[i].chapter = 2
        /\ Closed(c)

\* the "chapter_complete" events sent before position i of log t
CompleteBefore(t, i) ==
    SelectSeq(SubSeq(t, 1, i - 1),
              LAMBDA x : IsSend(x, "chapter_complete") /\ x.ok)

\* position i of log t belongs to chapter j of the selection: the attempt to
\* send its "processing" event, or one of its stage calls
OfChapter(t, i, j) ==
    \/ IsSend(t[i], "processing") /\ t[i].event.chapter = j
    \/ t[i].op = "stage" /\ t[i].chapter = j

(***************************************************************************)
(* C16: the selected chapters are processed strictly one after another:    *)
(* whenever the "processing" event of chapter j is sent (or attempted) or  *)
(* one of its stages is called, "chapter_complete" was sent before for     *)
(* each of the j - 1 chapters before it and for no other, the last of      *)
(* them being chapter j - 1.                                               *)
(***************************************************************************)
C16_ChaptersSequential ==
    \A c \in Conns : \A i \in 1 .. Len(Trace(c)) :
        \A j \in 1 .. Len(conn[c].selected_chapters) + 1 :
            OfChapter(Trace(c), i, j) =>
                LET done == CompleteBefore(Trace(c), i)
                IN /\ j <= Len(conn[c].selected_chapters)
                   /\ Len(done) = j - 1
                   /\ \A k \in 1 .. j - 1 :
                         done[k].event.chapter_title =
                             conn[c].selected_chapters[k].title

\* the stages of a third chapter have started
C16_Witness ==
    \E c \in Conns : \E i \in 1 .. Len(Trace(c)) :
        IsStage(Trace(c)[i], "generate_voiceover") /\ Trace(c)[i].chapter = 3

\* the "processing" events connection c sent or tried to send, in order
ProcessingEvents(c) ==
    LET s == SelectSeq(Trace(c), LAMBDA x : IsSend(x, "processing"))
    IN [i \in 1 .. Len(s) |-> s[i].event]

\* the number of stored chapters the slice of connection c selects
NumberSelected(c) ==
    Cardinality(SliceIndices(Len(Stored(c)), conn[c].start_chapter,
                             conn[c].end_chapter))

(***************************************************************************)
(* C17: in every "processing" event of a connection, total_chapters is the *)
(* number of chapters the slice selects, the same in all the events of the *)
(* connection, and 1 <= chapter <= total_chapters.                         *)
(***************************************************************************)
C17_ProcessingEventNumbers ==
    \A c \in Conns :
        LET ev == ProcessingEvents(c) IN
        \A i \in 1 .. Len(ev) :
            /\ ev[i].total_chapters = NumberSelected(c)
            /\ ev[i].total_chapters = ev[1].total_chapters
            /\ 1 <= ev[i].chapter
            /\ ev[i].chapter <= ev[i].total_chapters

\* two "processing" events were sent for a slice that selects two of three
\* stored chapters
C17_Witness ==
    \E c \in Conns :
        /\ Len(Stored(c)) = 3
        /\ Len(SentWith(c, "processing")) = 2
        /\ SentWith(c, "processing")[2].total_chapters = 2
        /\ SentWith(c, "processing")[2].chapter = 2

\* connection c looked up a stored task
TaskFound(c) == Lookups(c) # <<>> /\ Lookups(c)[1].ok

\* the attempts of connection c to send an event of the given status
SendsOf(c, status) == SelectSeq(Trace(c), LAMBDA x : IsSend(x, status))

\* the cases of an empty range as the claim lists them
EmptyRangeAsStated(c) ==
    \/ conn[c].start_chapter >= Len(Stored(c))
    \/ conn[c].end_chapter < conn[c].start_chapter
    \/ Stored(c) = <<>>

(***************************************************************************)
(* C18: when the range selects no chapter of a stored task (start_chapter  *)
(* at or beyond the number of stored chapters, or end_chapter <            *)
(* start_chapter, or an empty chapter list), the connection sends no       *)
(* "processing" and no "chapter_complete" event, calls no stage, sends     *)
(* exactly one "completed" event and no "error" event, and then closes.    *)
(* This is the claim as stated; the code violates it.                      *)
(***************************************************************************)
C18_EmptyRangeCompletes ==
    \A c \in Conns :
        Closed(c) /\ TaskFound(c) /\ EmptyRangeAsStated(c) =>
            /\ SentWith(c, "processing") = <<>>
            /\ SentWith(c, "chapter_complete") = <<>>
            /\ StageCalls(c) = <<>>
            /\ Len(SentWith(c, "completed")) = 1
            /\ SentWith(c, "error") = <<>>
            /\ Trace(c)[Len(Trace(c))].op = "close"

(***************************************************************************)
(* C18 amended: when the slice chapters[start_chapter : end_chapter + 1]   *)
(* selects no chapter of a stored task (which is so when start_chapter is  *)
(* at or beyond the number of stored chapters, when -1 <= end_chapter <    *)
(* start_chapter, and when the chapter list is empty), the connection      *)
(* attempts no "processing" and no "chapter_complete" event, calls no      *)
(* stage, and makes exactly one attempt to send "completed": when that     *)
(* send returns no "error" event is attempted, when it raises exactly one  *)
(* "error" event is attempted; then the connection closes.                 *)
(***************************************************************************)
C18_EmptySliceCompletes ==
    \A c \in Conns :
        Closed(c) /\ TaskFound(c) =>
            /\ \/ conn[c].start_chapter >= Len(Stored(c))
               \/ /\ -1 <= conn[c].end_chapter
                  /\ conn[c].end_chapter < conn[c].start_chapter
               \/ Stored(c) = <<>>
               => NumberSelected(c) = 0
            /\ NumberSelected(c) = 0 =>
                /\ SendsOf(c, "processing") = <<>>
                /\ SendsOf(c, "chapter_complete") = <<>>
                /\ StageCalls(c) = <<>>
                /\ Len(SendsOf(c, "completed")) = 1
                /\ Len(SendsOf(c, "error")) =
                       IF SendsOf(c, "completed")[1].ok THEN 0 ELSE 1
                /\ Len(Trace(c)) = 4 + Len(SendsOf(c, "error"))
                /\ Trace(c)[Len(Trace(c))].op = "close"

\* a connection whose range selected none of three stored chapters sent
\* "completed" and closed
C18_Witness ==
    \E c \in Conns :
        /\ Closed(c) /\ TaskFound(c)
        /\ Len(Stored(c)) = 3
        /\ conn[c].end_chapter >= 0
        /\ conn[c].end_chapter < conn[c].start_chapter
        /\ Len(SentWith(c, "completed")) = 1

\* the terminal events connection c sent
TerminalEvents(c) ==
    SelectSeq(Sent(c), LAMBDA ev : ev.status \in {"completed", "error"})

(***************************************************************************)
(* C19: an accepted connection sends at most one terminal event, either    *)
(* "completed" or "error" and never both; no event is sent after it and    *)
(* the close comes right after it; "completed" is sent only if a           *)
(* "chapter_complete" event was sent for every selected chapter.           *)
(***************************************************************************)
C19_OneTerminalEvent ==
    \A c \in Conns :
        LET t == Trace(c) IN
        /\ Len(TerminalEvents(c)) <= 1
        /\ TerminalEvents(c) # <<>> =>
              /\ Sent(c)[Len(Sent(c))] = TerminalEvents(c)[1]
              /\ Closed(c) =>
                    /\ t[Len(t)].op = "close"
                    /\ t[Len(t) - 1].op = "send_json" /\ t[Len(t) - 1].ok
                    /\ t[Len(t) - 1].event = TerminalEvents(c)[1]
        /\ SentWith(c, "completed") # <<>> =>
              /\ Len(SentWith(c, "chapter_complete")) = NumberSelected(c)
              /\ CompletedTitles(c) =
                     SliceTitles(Stored(c), conn[c].start_chapter,
                                 conn[c].end_chapter)

\* a connection reported one chapter, then sent "error" as its last event
\* and closed
C19_Witness ==
    \E c \in Conns :
        /\ Closed(c)
        /\ Len(SentWith(c, "chapter_complete")) = 1
        /\ Len(SentWith(c, "error")) = 1
        /\ Sent(c)[Len(Sent(c))].status = "error"

====
